---- MODULE Spec2Model ----
(***************************************************************************)
(* Control station of the ROV (src/app): the joystick sampler              *)
(* (JoystickThread.check_joystick_input), the thrust mapper                *)
(* (__calculate_pulsewidth, __map_to_pwm), the send rate limiter, the      *)
(* outbound queue (ArduinoThread.handle_data) and the serial writer loop   *)
(* (ArduinoWriteWorker.handle_data).                                       *)
(*                                                                         *)
(* Numbers.  An axis value v in [-1, 1] is the integer v * Scale; a        *)
(* pulsewidth before rounding is the integer p * Scale.  Every value the   *)
(* code computes is then an exact integer and Python's round() (round half *)
(* to even) is computed exactly.  Time is counted in units of 50 ms.       *)
(***************************************************************************)
EXTENDS Integers, Sequences, FiniteSets, TLC

\* get_axis() returns values in [-1, 1]; 1.0 is Scale.
Scale == 1600

\* src/app/joystickthread.py:13-16, in units of 1/Scale (axes) and of 50 ms (time).
RESTING_PULSEWIDTH == 1500
DEADZONE_MIN == 1200
PWM_DEADZONE_MIN == 160
ARDUINO_SEND_TIMER_MIN == 2

\* time.sleep(0.1) of the writer loop, src/app/arduinothread.py:145.
WRITER_SLEEP == 2
\* time.sleep(7.5) between constructing Main and starting the event loop, src/app/app.py:153-157.
STARTUP_SLEEP == 150

\* _wait_for_joystick_timer.start(1000), src/app/joystickthread.py:133.
POLL_PERIOD == 20

\* Bounds of the model.
Horizon == 3
MaxTicks == 3
MaxLines == 2

MaxTime == STARTUP_SLEEP + Horizon

VARIABLES
    now,             \* time.time()
    last_sent_time,  \* JoystickThread.__last_sent_time
    joystick,        \* JoystickThread.__joystick: "None", "bound" (a Joystick(0) of the
                     \* current pygame.init()), or "stale" (one of an earlier init)
    joy_present,     \* a controller is physically plugged in
    joy_count,       \* pygame.joystick.get_count()
    wait_timer,      \* _wait_for_joystick_timer is active
    get_axis,        \* what Joystick.get_axis(0..5) returned at the last connected tick
    read_axes,       \* the six values the last connected tick read (before the deadzone)
    rumble,          \* <<intensity of the last Joystick.rumble call>>, <<>> before the first
    axis_info,       \* axis_info of the last connected tick
    pulsewidths,     \* pulsewidths of the last connected tick
    to_arduino,      \* to_arduino of the last connected tick
    write_queue,     \* ArduinoThread.write_queue
    serial_ok,       \* ArduinoThread.__serial is not None
    writer_pc,       \* position of ArduinoWriteWorker.handle_data
    writer_data,     \* local `data` of the writer loop
    wake_at,         \* end of the writer's current time.sleep
    ticks,           \* history: connected ticks, [at, sent]
    enq,             \* history: commands handed to ArduinoThread.handle_data
    deq,             \* history: commands the writer dequeued, [cmd, ok]
    applied,         \* which function was applied directly (pure-function runs)
    val,             \* argument of the direct __map_to_pwm call
    pwm,             \* result of the direct __map_to_pwm call
    joystick_info,   \* the last dict joystick_change_signal emitted, <<>> before the first
    poll_due,        \* when _wait_for_joystick_timer times out next
    startup_count,   \* history: <<get_count() in JoystickThread.__init__>>, <<>> if not recorded
    reenum_at,       \* history: time of the last _wait_for_joystick call, 0 before the first
    main_thread,     \* the main thread: "idle" in its event loop, "driver" inside a pygame call
    reader_pc,       \* position of ArduinoReadWorker.read_arduino: "off", "readline", "done"
    rx_buffer,       \* lines the device has sent that readline() has not returned yet
    rx_read,         \* history: lines readline() returned, [line, emitted, by]
    rx_emitted,      \* dicts the read worker emitted, queued for the main event loop
    forwarded,       \* history: dicts forward_arduino_data emitted to its observer
    read_running,    \* ArduinoReadWorker.running
    write_running,   \* ArduinoWriteWorker.running
    quit_called,     \* the QThreads whose quit() was called
    finished,        \* the QThreads whose run() returned
    stop_pc,         \* position of ArduinoThread.stop()
    joy_stop_pc,     \* position of JoystickThread.stop()
    joy_run_flag,    \* JoystickThread.__run_flag
    at_stop          \* history: <<[writes, reads, emitted] when ArduinoThread.stop() cleared
                     \* the running flags>>, <<>> before

vars == <<now, last_sent_time, joystick, joy_present, joy_count, wait_timer,
          get_axis, read_axes, rumble, axis_info, pulsewidths, to_arduino,
          write_queue, serial_ok, writer_pc, writer_data, wake_at, ticks, enq, deq, applied, val, pwm,
          joystick_info, poll_due, startup_count, reenum_at,
          main_thread, reader_pc, rx_buffer, rx_read, rx_emitted, forwarded,
          read_running, write_running, quit_called, finished, stop_pc, joy_stop_pc,
          joy_run_flag, at_stop>>

samplerVars == <<get_axis, read_axes, rumble, axis_info, pulsewidths, to_arduino>>
pollVars == <<poll_due, startup_count, reenum_at>>
readerVars == <<reader_pc, rx_buffer, rx_read, rx_emitted, forwarded>>
stopVars == <<read_running, write_running, quit_called, finished, stop_pc, joy_stop_pc,
              joy_run_flag, at_stop>>
linkVars == <<main_thread, readerVars, stopVars>>
joyVars == <<joystick, joy_present, joy_count, wait_timer>>
writerVars == <<writer_pc, writer_data, wake_at, deq>>
pureVars == <<applied, val, pwm>>

----
\* Pure functions

Abs(x) == IF x < 0 THEN -x ELSE x

\* Mutant of round: ties go up.
round_half_up(x) == (2 * x + Scale) \div (2 * Scale)

\* Python round(x) of the float x / Scale: nearest integer, ties to even.
round(x) ==
    LET q == x \div Scale
        r == x % Scale
    IN  IF 2 * r < Scale THEN q
        ELSE IF 2 * r > Scale THEN q + 1
        ELSE IF q % 2 = 0 THEN q ELSE q + 1

\* Mutants of __map_to_pwm: the offset 1000 of another revision; a deadzone without
\* its bounds; a resting value of 0.
map_to_pwm_offset_1000(v) ==
    IF v >= -PWM_DEADZONE_MIN /\ v <= PWM_DEADZONE_MIN
    THEN 1500 * Scale
    ELSE 400 * (v + Scale) + 1000 * Scale

map_to_pwm_open_deadzone(v) ==
    IF v > -PWM_DEADZONE_MIN /\ v < PWM_DEADZONE_MIN
    THEN 1500 * Scale
    ELSE 400 * (v + Scale) + 1100 * Scale

map_to_pwm_rest_zero(v) ==
    IF v >= -PWM_DEADZONE_MIN /\ v <= PWM_DEADZONE_MIN
    THEN 0
    ELSE 400 * (v + Scale) + 1100 * Scale

\* Mutant of __map_to_pwm: the slope is negative.
map_to_pwm_descending(v) ==
    IF v >= -PWM_DEADZONE_MIN /\ v <= PWM_DEADZONE_MIN
    THEN 1500 * Scale
    ELSE 400 * (Scale - v) + 1100 * Scale

\* __map_to_pwm(val); the result is in units of 1/Scale.
map_to_pwm(v) ==
    IF v >= -PWM_DEADZONE_MIN /\ v <= PWM_DEADZONE_MIN
    THEN 1500 * Scale
    ELSE 400 * (v + Scale) + 1100 * Scale

\* Mutant of __calculate_pulsewidth: the right motor is not mirrored when the stick is
\* pushed left.
calculate_pulsewidth_no_mirror(info) ==
    LET pw(x) == IF x = 0 THEN RESTING_PULSEWIDTH * Scale ELSE map_to_pwm(x)
    IN  [forward_backward_pulsewidth |-> round(pw(info.tLeft_UpDown)),
         left_pulsewidth |-> round(pw(info.tLeft_LeftRight)),
         right_pulsewidth |-> round(IF info.tLeft_LeftRight < 0
                                    THEN map_to_pwm(info.tLeft_LeftRight)
                                    ELSE pw(-info.tLeft_LeftRight)),
         ascend_descend_pulsewidth |-> round(map_to_pwm(info.tRight_UpDown)),
         pitch_left_pulsewidth |-> round(map_to_pwm(info.tRight_LeftRight)),
         pitch_right_pulsewidth |-> round(map_to_pwm(-info.tRight_LeftRight))]

\* Mutant of __calculate_pulsewidth: the left stick's vertical value is negated before
\* it is mapped.
calculate_pulsewidth_forward_negated(info) ==
    LET pw(x) == IF x = 0 THEN RESTING_PULSEWIDTH * Scale ELSE map_to_pwm(x)
    IN  [forward_backward_pulsewidth |-> round(pw(-info.tLeft_UpDown)),
         left_pulsewidth |-> round(pw(info.tLeft_LeftRight)),
         right_pulsewidth |-> round(pw(-info.tLeft_LeftRight)),
         ascend_descend_pulsewidth |-> round(map_to_pwm(info.tRight_UpDown)),
         pitch_left_pulsewidth |-> round(map_to_pwm(info.tRight_LeftRight)),
         pitch_right_pulsewidth |-> round(map_to_pwm(-info.tRight_LeftRight))]

\* __calculate_pulsewidth(axis_info)
calculate_pulsewidth(info) ==
    LET left_thumbstick_left_right == info.tLeft_LeftRight
        left_thumbstick_up_down == info.tLeft_UpDown
        right_thumbstick_left_right == info.tRight_LeftRight
        right_thumbstick_up_down == info.tRight_UpDown
        forward_backward_pulsewidth ==
            IF left_thumbstick_up_down < 0 THEN map_to_pwm(left_thumbstick_up_down)
            ELSE IF left_thumbstick_up_down > 0 THEN map_to_pwm(left_thumbstick_up_down)
            ELSE RESTING_PULSEWIDTH * Scale
        left_pulsewidth ==
            IF left_thumbstick_left_right < 0 THEN map_to_pwm(left_thumbstick_left_right)
            ELSE IF left_thumbstick_left_right > 0 THEN map_to_pwm(left_thumbstick_left_right)
            ELSE RESTING_PULSEWIDTH * Scale
        right_pulsewidth ==
            IF left_thumbstick_left_right < 0 THEN map_to_pwm(-left_thumbstick_left_right)
            ELSE IF left_thumbstick_left_right > 0 THEN map_to_pwm(-left_thumbstick_left_right)
            ELSE RESTING_PULSEWIDTH * Scale
        ascend_descend_pulsewidth ==
            IF right_thumbstick_up_down < 0 THEN map_to_pwm(right_thumbstick_up_down)
            ELSE map_to_pwm(right_thumbstick_up_down)
        pitch_left_pulsewidth ==
            IF right_thumbstick_left_right < 0 THEN map_to_pwm(right_thumbstick_left_right)
            ELSE map_to_pwm(right_thumbstick_left_right)
        pitch_right_pulsewidth ==
            IF right_thumbstick_left_right < 0 THEN map_to_pwm(-right_thumbstick_left_right)
            ELSE map_to_pwm(-right_thumbstick_left_right)
    IN  \* the second round() of the return statement acts on an int and changes nothing
        [forward_backward_pulsewidth |-> round(forward_backward_pulsewidth),
         left_pulsewidth |-> round(left_pulsewidth),
         right_pulsewidth |-> round(right_pulsewidth),
         ascend_descend_pulsewidth |-> round(ascend_descend_pulsewidth),
         pitch_left_pulsewidth |-> round(pitch_left_pulsewidth),
         pitch_right_pulsewidth |-> round(pitch_right_pulsewidth)]

\* The six values check_joystick_input reads from get_axis(0..5); axis 1 is negated.
ReadAxes(a) ==
    [left_thumbstick_left_right |-> a[0],
     left_thumbstick_up_down |-> -a[1],
     right_thumbstick_left_right |-> a[2],
     right_thumbstick_up_down |-> a[3],
     left_trigger |-> a[4],
     right_trigger |-> a[5]]

\* Mutant of the deadzone test: the bound 0.2 of the gui revision.
Deadzone_bound_02(x) == IF 5 * Abs(x) < Scale THEN 0 ELSE x

\* Mutant of the deadzone test: a value on the bound is zeroed too.
Deadzone_inclusive(x) == IF Abs(x) <= DEADZONE_MIN THEN 0 ELSE x

\* One `if abs(x) < DEADZONE_MIN: x = 0` of check_joystick_input.
Deadzone(x) == IF Abs(x) < DEADZONE_MIN THEN 0 ELSE x

\* axis_info as built by check_joystick_input from the values read.
AxisInfo(r) ==
    [tLeft_LeftRight |-> Deadzone(r.left_thumbstick_left_right),
     tLeft_UpDown |-> Deadzone(r.left_thumbstick_up_down),
     tRight_LeftRight |-> Deadzone(r.right_thumbstick_left_right),
     tRight_UpDown |-> Deadzone(r.right_thumbstick_up_down)]

Max(S) == CHOOSE x \in S : \A y \in S : y <= x

\* Mutant of rumble_freq: the left thumbstick only.
RumbleFreq_left_stick(info) ==
    Max({Abs(info.tLeft_LeftRight), Abs(info.tLeft_UpDown)})

\* rumble_freq of check_joystick_input: the largest magnitude of the four thumbstick
\* locals, which the deadzone code has already rewritten (they are axis_info's values).
RumbleFreq(info) ==
    Max({Abs(info.tLeft_LeftRight), Abs(info.tLeft_UpDown),
         Abs(info.tRight_LeftRight), Abs(info.tRight_UpDown)})

\* Mutant of to_arduino: the right pulsewidth is listed before the left one.
ToArduino_right_before_left(pw, r) ==
    [axisInfo |-> <<pw.forward_backward_pulsewidth,
                    pw.right_pulsewidth,
                    pw.left_pulsewidth,
                    pw.ascend_descend_pulsewidth,
                    pw.pitch_left_pulsewidth,
                    pw.pitch_right_pulsewidth,
                    Deadzone(r.left_trigger),
                    Deadzone(r.right_trigger)>>]

\* to_arduino as built by check_joystick_input.
ToArduino(pw, r) ==
    [axisInfo |-> <<pw.forward_backward_pulsewidth,
                    pw.left_pulsewidth,
                    pw.right_pulsewidth,
                    pw.ascend_descend_pulsewidth,
                    pw.pitch_left_pulsewidth,
                    pw.pitch_right_pulsewidth,
                    Deadzone(r.left_trigger),
                    Deadzone(r.right_trigger)>>]

\* Mutants of the rate limiter's test: `>=` for `>`; twice the interval.
SendAllowed_at_interval(current_time, last) == current_time - last >= ARDUINO_SEND_TIMER_MIN

SendAllowed_double_interval(current_time, last) == current_time - last > 2 * ARDUINO_SEND_TIMER_MIN

\* The rate limiter's test `current_time - self.__last_sent_time > ARDUINO_SEND_TIMER_MIN`.
SendAllowed(current_time, last) == current_time - last > ARDUINO_SEND_TIMER_MIN

----
\* Inputs

ZeroAxes == [i \in 0..5 |-> 0]
ZeroInfo == [tLeft_LeftRight |-> 0, tLeft_UpDown |-> 0, tRight_LeftRight |-> 0, tRight_UpDown |-> 0]

AxisRange == (-Scale)..Scale

\* Values around the deadzone bounds and the ends of the range.
GridValues == {-Scale, -DEADZONE_MIN, 0, DEADZONE_MIN - 1, Scale}

\* One axis swept over the whole range, the others at rest.
SweepAxes == {[j \in 0..5 |-> IF j = i THEN v ELSE 0] : i \in 0..5, v \in AxisRange}

GridAxes == [0..5 -> GridValues] \cup SweepAxes

\* Stick positions of the concurrent runs: at rest; full forward with the left
\* trigger pulled; drift inside the deadzone with a turn and the right trigger.
SampleAxes ==
    {ZeroAxes,
     [j \in 0..5 |-> IF j = 1 THEN -Scale ELSE IF j = 4 THEN Scale ELSE 0],
     [j \in 0..5 |-> IF j = 0 THEN DEADZONE_MIN - 1 ELSE IF j = 2 THEN Scale
                     ELSE IF j = 5 THEN -DEADZONE_MIN ELSE 0]}

\* axis_info arguments of the direct __calculate_pulsewidth calls.
InfoKeys == {"tLeft_LeftRight", "tLeft_UpDown", "tRight_LeftRight", "tRight_UpDown"}
OneAxisInfo(k, v) == [f \in InfoKeys |-> IF f = k THEN v ELSE 0]
CalcInfos == {OneAxisInfo(k, v) : k \in InfoKeys, v \in AxisRange}
                 \cup [InfoKeys -> {-Scale, -PWM_DEADZONE_MIN, 0, PWM_DEADZONE_MIN + 1, Scale}]

----
\* State after Main() is constructed and the event loop starts

RestingPulsewidths ==
    [forward_backward_pulsewidth |-> RESTING_PULSEWIDTH,
     left_pulsewidth |-> RESTING_PULSEWIDTH,
     right_pulsewidth |-> RESTING_PULSEWIDTH,
     ascend_descend_pulsewidth |-> RESTING_PULSEWIDTH,
     pitch_left_pulsewidth |-> RESTING_PULSEWIDTH,
     pitch_right_pulsewidth |-> RESTING_PULSEWIDTH]

\* Mutant of JoystickThread.__init__: the poll timer is started whatever get_count() is.
JoystickThreadInit_always_poll(count) ==
    [joystick |-> IF count = 0 THEN "None" ELSE "bound", wait_timer |-> TRUE]

\* JoystickThread.__init__: `if pygame.joystick.get_count() == 0:
\* self._wait_for_joystick_timer.start(1000) else: self._initialize_joystick()`
JoystickThreadInit(count) ==
    IF count = 0
    THEN [joystick |-> "None", wait_timer |-> TRUE]
    ELSE [joystick |-> "bound", wait_timer |-> FALSE]

\* Mutant of ArduinoThread.__init__: the workers are started without `if self.__serial:`.
ArduinoThreadInit_always_start(serial) ==
    [writer_pc |-> "top", reader_pc |-> "readline", running |-> TRUE,
     read_worker |-> "read_thread", write_worker |-> "write_thread"]

\* Mutant of ArduinoThread.__init__: the write worker is moved to read_thread too.
ArduinoThreadInit_one_thread(serial) ==
    IF serial
    THEN [writer_pc |-> "top", reader_pc |-> "readline", running |-> TRUE,
          read_worker |-> "read_thread", write_worker |-> "read_thread"]
    ELSE [writer_pc |-> "off", reader_pc |-> "off", running |-> FALSE,
          read_worker |-> "none", write_worker |-> "none"]

\* ArduinoThread.__init__: `if self.__serial:` creates the two workers, moves them to
\* their threads and starts the threads; otherwise nothing is created. read_worker and
\* write_worker name the thread each worker lives in after moveToThread, which is the
\* thread that runs its slot when `started` is emitted.
ArduinoThreadInit(serial) ==
    IF serial
    THEN [writer_pc |-> "top", reader_pc |-> "readline", running |-> TRUE,
          read_worker |-> "read_thread", write_worker |-> "write_thread"]
    ELSE [writer_pc |-> "off", reader_pc |-> "off", running |-> FALSE,
          read_worker |-> "none", write_worker |-> "none"]

\* A handle after pygame.quit(); pygame.init(): the Joystick object it refers to
\* belongs to the subsystem that was torn down.
AfterReinit(h) == IF h = "None" THEN "None" ELSE "stale"

\* __wait_for_joystick of src/gui/joystickthread.py on the handle h with a controller
\* present or not: pygame.quit(); pygame.init(); then
\* `if pygame.joystick.get_count() > 0 and self.__joystick is not None:` binds index 0.
gui_wait_for_joystick(h, present) ==
    IF present /\ h # "None" THEN "bound" ELSE AfterReinit(h)

\* JoystickThread.__init__ of src/gui/joystickthread.py: with no controller it calls
\* __wait_for_joystick once; the revision has no reconnect timer.
GuiJoystickThreadInit(count) ==
    IF count = 0
    THEN [joystick |-> gui_wait_for_joystick("None", FALSE), wait_timer |-> FALSE]
    ELSE [joystick |-> "bound", wait_timer |-> FALSE]

\* The state after construction, the controller thread built by ctor[get_count()].
ConstructedWith(ctor) ==
    /\ now = STARTUP_SLEEP
    /\ last_sent_time = 0
    /\ joy_present \in BOOLEAN
    /\ joy_count = IF joy_present THEN 1 ELSE 0
    /\ joystick = ctor[joy_count].joystick
    /\ wait_timer = ctor[joy_count].wait_timer
    /\ poll_due = POLL_PERIOD
    /\ get_axis = ZeroAxes
    /\ read_axes = ReadAxes(ZeroAxes)
    /\ rumble = <<>>
    /\ axis_info = ZeroInfo
    /\ pulsewidths = RestingPulsewidths
    /\ to_arduino = ToArduino(RestingPulsewidths, ReadAxes(ZeroAxes))
    /\ write_queue = <<>>
    /\ serial_ok \in BOOLEAN
    /\ writer_pc = ArduinoThreadInit(serial_ok).writer_pc
    /\ writer_data = <<>>
    /\ wake_at = 0
    /\ ticks = <<>>
    /\ enq = <<>>
    /\ deq = <<>>
    /\ applied = "none"
    /\ val = 0
    /\ pwm = 0
    /\ main_thread = "idle"
    /\ reader_pc = ArduinoThreadInit(serial_ok).reader_pc
    /\ rx_buffer = <<>>
    /\ rx_read = <<>>
    /\ rx_emitted = <<>>
    /\ forwarded = <<>>
    /\ read_running = ArduinoThreadInit(serial_ok).running
    /\ write_running = ArduinoThreadInit(serial_ok).running
    /\ quit_called = {}
    /\ finished = {}
    /\ stop_pc = "idle"
    /\ joy_stop_pc = "idle"
    /\ joy_run_flag = TRUE
    /\ at_stop = <<>>

\* JoystickThread.__init__ and ArduinoThread.__init__, then the 7.5 s sleep of
\* app.py before app.exec_() lets the first timer tick run.
Constructed == ConstructedWith([count \in 0..1 |-> JoystickThreadInit(count)])

\* The histories of the controller are empty and stay so in the runs of Spec.
Init ==
    /\ Constructed
    /\ startup_count = <<>>
    /\ reenum_at = 0
    /\ joystick_info = <<>>

----
\* Controller

\* Mutant of the guard of check_joystick_input: only the handle is tested.
Connected_handle_only == joystick # "None"

\* `if self.__joystick is not None and pygame.joystick.get_count() > 0`
Connected == joystick # "None" /\ joy_count > 0

\* The dict the disconnected branch emits; it has no axisInfo key.
DisconnectedInfo == [connected |-> "False", axisInfo |-> <<>>]

\* joystick_info of the connected branch: "connected" is the string "True".
ConnectedInfo(pw) ==
    [connected |-> "True",
     axisInfo |-> <<pw.forward_backward_pulsewidth, pw.left_pulsewidth,
                    pw.right_pulsewidth, pw.ascend_descend_pulsewidth,
                    pw.pitch_left_pulsewidth, pw.pitch_right_pulsewidth>>]

\* Mutant of _wait_for_joystick: pygame is not quit and re-initialised, so get_count()
\* keeps the value it had.
wait_for_joystick_no_reinit ==
    /\ IF joy_count > 0
       THEN joystick' = "bound" /\ wait_timer' = FALSE
       ELSE UNCHANGED <<joystick, wait_timer>>
    /\ UNCHANGED <<joy_present, joy_count>>

\* Mutant of _wait_for_joystick: the reconnect timer is not stopped.
wait_for_joystick_timer_kept ==
    /\ joy_count' = IF joy_present THEN 1 ELSE 0
    /\ joystick' = IF joy_present THEN "bound" ELSE AfterReinit(joystick)
    /\ UNCHANGED <<joy_present, wait_timer>>

\* Mutant of _wait_for_joystick: a handle is bound only when there is none yet.
wait_for_joystick_bind_once ==
    /\ joy_count' = IF joy_present THEN 1 ELSE 0
    /\ IF joy_present /\ joystick = "None"
       THEN joystick' = "bound" /\ wait_timer' = FALSE
       ELSE joystick' = AfterReinit(joystick) /\ UNCHANGED wait_timer
    /\ UNCHANGED joy_present

\* _wait_for_joystick: pygame.quit(); pygame.init(); bind joystick 0 if one enumerates.
wait_for_joystick ==
    /\ joy_count' = IF joy_present THEN 1 ELSE 0
    /\ IF joy_present
       THEN joystick' = "bound" /\ wait_timer' = FALSE
       ELSE joystick' = AfterReinit(joystick) /\ UNCHANGED wait_timer
    /\ UNCHANGED joy_present

\* Mutant of handle_data: a LIFO queue.
handle_data_lifo(q, data) == <<data>> \o q

\* ArduinoThread.handle_data(data): write_queue.put(data)
handle_data(q, data) == Append(q, data)

\* Mutant of the dispatcher: handle_data is called outside the `if`.
Dispatch_always_queue(item, current_time) ==
    /\ write_queue' = handle_data(write_queue, item)
    /\ enq' = Append(enq, item)
    /\ IF SendAllowed(current_time, last_sent_time)
       THEN last_sent_time' = current_time
       ELSE UNCHANGED last_sent_time

\* Mutant of the dispatcher: write_queue is a Queue(maxsize=1), whose put blocks while
\* the queue is full.
Dispatch_bounded_queue(item, current_time) ==
    IF SendAllowed(current_time, last_sent_time)
    THEN /\ Len(write_queue) < 1
         /\ write_queue' = handle_data(write_queue, item)
         /\ last_sent_time' = current_time
         /\ enq' = Append(enq, item)
    ELSE UNCHANGED <<write_queue, last_sent_time, enq>>

\* Mutant of the dispatcher: handle_data drops the command when no serial port is open.
Dispatch_needs_serial(item, current_time) ==
    IF SendAllowed(current_time, last_sent_time)
    THEN /\ IF serial_ok
            THEN write_queue' = handle_data(write_queue, item) /\ enq' = Append(enq, item)
            ELSE UNCHANGED <<write_queue, enq>>
         /\ last_sent_time' = current_time
    ELSE UNCHANGED <<write_queue, last_sent_time, enq>>

\* The end of the connected branch: `if current_time - self.__last_sent_time >
\* ARDUINO_SEND_TIMER_MIN: handle_data(to_arduino); self.__last_sent_time = current_time`
Dispatch(item, current_time) ==
    IF SendAllowed(current_time, last_sent_time)
    THEN /\ write_queue' = handle_data(write_queue, item)
         /\ last_sent_time' = current_time
         /\ enq' = Append(enq, item)
    ELSE UNCHANGED <<write_queue, last_sent_time, enq>>

\* Mutant of check_joystick_input: the disconnected branch hands the link a resting
\* command.
CheckJoystickInput_rest_on_drop(Inputs) ==
    IF Connected
    THEN \E a \in Inputs :
            LET r == ReadAxes(a)
                info == AxisInfo(r)
                pw == calculate_pulsewidth(info)
                cmd == ToArduino(pw, r)
                item == [tick |-> Len(ticks) + 1, at |-> now, data |-> cmd]
            IN  /\ get_axis' = a
                /\ read_axes' = r
                /\ rumble' = <<RumbleFreq(info)>>
                /\ axis_info' = info
                /\ pulsewidths' = pw
                /\ to_arduino' = cmd
                /\ Dispatch(item, now)
                /\ ticks' = Append(ticks, [at |-> now, sent |-> SendAllowed(now, last_sent_time)])
                /\ UNCHANGED <<now, joyVars, serial_ok, writerVars, pureVars>>
    ELSE /\ wait_for_joystick
         /\ Len(enq) < MaxTicks
         /\ Dispatch([tick |-> 0, at |-> now,
                      data |-> ToArduino(RestingPulsewidths, ReadAxes(ZeroAxes))], now)
         /\ UNCHANGED <<now, samplerVars, serial_ok, writerVars, ticks, pureVars>>

\* Mutant of check_joystick_input: the disconnected branch empties write_queue, a
\* second consumer beside the writer loop.
CheckJoystickInput_clear_on_drop(Inputs) ==
    IF Connected
    THEN \E a \in Inputs :
            LET r == ReadAxes(a)
                info == AxisInfo(r)
                pw == calculate_pulsewidth(info)
                cmd == ToArduino(pw, r)
                item == [tick |-> Len(ticks) + 1, at |-> now, data |-> cmd]
            IN  /\ get_axis' = a
                /\ read_axes' = r
                /\ rumble' = <<RumbleFreq(info)>>
                /\ axis_info' = info
                /\ pulsewidths' = pw
                /\ to_arduino' = cmd
                /\ Dispatch(item, now)
                /\ ticks' = Append(ticks, [at |-> now, sent |-> SendAllowed(now, last_sent_time)])
                /\ UNCHANGED <<now, joyVars, serial_ok, writerVars, pureVars>>
    ELSE /\ wait_for_joystick
         /\ write_queue' = <<>>
         /\ UNCHANGED <<now, last_sent_time, samplerVars, serial_ok,
                        writerVars, ticks, enq, pureVars>>

\* check_joystick_input, one 10 ms timer tick; the controller's axes are at a.
CheckJoystickInput(Inputs) ==
    IF Connected
    THEN \E a \in Inputs :
            LET r == ReadAxes(a)
                info == AxisInfo(r)
                pw == calculate_pulsewidth(info)
                cmd == ToArduino(pw, r)
                current_time == now
                item == [tick |-> Len(ticks) + 1, at |-> current_time, data |-> cmd]
                send == SendAllowed(current_time, last_sent_time)
            IN  /\ get_axis' = a
                /\ read_axes' = r
                /\ rumble' = <<RumbleFreq(info)>>
                /\ axis_info' = info
                /\ pulsewidths' = pw
                /\ to_arduino' = cmd
                /\ Dispatch(item, current_time)
                /\ ticks' = Append(ticks, [at |-> current_time, sent |-> send])
                /\ UNCHANGED <<now, joyVars, serial_ok, writerVars, pureVars>>
    ELSE /\ wait_for_joystick
         /\ UNCHANGED <<now, last_sent_time, samplerVars, write_queue, serial_ok,
                        writerVars, ticks, enq, pureVars>>

\* The 10 ms timer fires.
JoystickTimerTick ==
    /\ main_thread = "idle"
    /\ applied = "none"
    /\ Connected => Len(ticks) < MaxTicks
    /\ CheckJoystickInput(SampleAxes)
    /\ UNCHANGED <<joystick_info, pollVars, linkVars>>

\* Mutant of the reconnect timer: its handler runs on a context of its own, whatever
\* the main thread is doing.
WaitForJoystickTimerTick_own_context ==
    /\ wait_timer
    /\ wait_for_joystick
    /\ UNCHANGED <<now, last_sent_time, samplerVars, write_queue, serial_ok,
                   writerVars, ticks, enq, pureVars,
                   joystick_info, pollVars, linkVars>>

\* The 1000 ms _wait_for_joystick_timer fires. The timer is a QTimer(self) of the
\* JoystickThread object, which lives in the main thread, as the 10 ms timer is: the
\* main event loop runs the handler when it is not inside another one.
WaitForJoystickTimerTick ==
    /\ main_thread = "idle"
    /\ wait_timer
    /\ wait_for_joystick
    /\ UNCHANGED <<now, last_sent_time, samplerVars, write_queue, serial_ok,
                   writerVars, ticks, enq, pureVars,
                   joystick_info, pollVars, linkVars>>

\* The operator plugs a controller in; pygame does not see it before it is re-initialised.
PlugJoystick ==
    /\ ~joy_present
    /\ joy_present' = TRUE
    /\ UNCHANGED <<now, last_sent_time, joystick, joy_count, wait_timer, samplerVars,
                   write_queue, serial_ok, writerVars, ticks, enq, pureVars,
                   joystick_info, pollVars, linkVars>>

\* The controller drops; get_count() becomes 0.
UnplugJoystick ==
    /\ joy_present
    /\ joy_present' = FALSE
    /\ joy_count' = 0
    /\ UNCHANGED <<now, last_sent_time, joystick, wait_timer, samplerVars,
                   write_queue, serial_ok, writerVars, ticks, enq, pureVars,
                   joystick_info, pollVars, linkVars>>

\* Time passes.
AdvanceTime ==
    /\ now < MaxTime
    /\ now' = now + 1
    /\ UNCHANGED <<last_sent_time, joyVars, samplerVars, write_queue, serial_ok,
                   writerVars, ticks, enq, pureVars,
                   joystick_info, pollVars, linkVars>>

----
\* ArduinoWriteWorker.handle_data, the writer loop

\* Mutant of the writer loop: the test of the queue is inverted, `if self.queue.empty():`.
WriterCheck_inverted ==
    /\ writer_pc = "top"
    /\ IF ~write_running
       THEN writer_pc' = "done" /\ UNCHANGED wake_at
       ELSE IF write_queue = <<>>
            THEN writer_pc' = "get" /\ UNCHANGED wake_at
            ELSE writer_pc' = "sleep" /\ wake_at' = now + WRITER_SLEEP
    /\ UNCHANGED <<now, last_sent_time, joyVars, samplerVars, write_queue, serial_ok,
                   writer_data, deq, ticks, enq, pureVars,
                   joystick_info, pollVars, linkVars>>

\* Mutant of the writer loop: `while True:`, running is not consulted.
WriterCheck_ignores_running ==
    /\ writer_pc = "top"
    /\ IF write_queue # <<>>
       THEN writer_pc' = "get" /\ UNCHANGED wake_at
       ELSE writer_pc' = "sleep" /\ wake_at' = now + WRITER_SLEEP
    /\ UNCHANGED <<now, last_sent_time, joyVars, samplerVars, write_queue, serial_ok,
                   writer_data, deq, ticks, enq, pureVars,
                   joystick_info, pollVars, linkVars>>

\* `while self.running: if not self.queue.empty():`; the loop, and with it the slot
\* handle_data, ends when running is False.
WriterCheck ==
    /\ writer_pc = "top"
    /\ IF ~write_running
       THEN writer_pc' = "done" /\ UNCHANGED wake_at
       ELSE IF write_queue # <<>>
            THEN writer_pc' = "get" /\ UNCHANGED wake_at
            ELSE writer_pc' = "sleep" /\ wake_at' = now + WRITER_SLEEP
    /\ UNCHANGED <<now, last_sent_time, joyVars, samplerVars, write_queue, serial_ok,
                   writer_data, deq, ticks, enq, pureVars,
                   joystick_info, pollVars, linkVars>>

\* `data = self.queue.get()`, which blocks while the queue is empty
WriterGet ==
    /\ writer_pc = "get"
    /\ write_queue # <<>>
    /\ writer_data' = <<Head(write_queue)>>
    /\ write_queue' = Tail(write_queue)
    /\ writer_pc' = "write"
    /\ UNCHANGED <<now, last_sent_time, joyVars, samplerVars, serial_ok, wake_at,
                   deq, ticks, enq, pureVars,
                   joystick_info, pollVars, linkVars>>

\* Mutant of the writer loop: a command whose write raised is put back on the queue.
WriterWrite_requeue ==
    /\ writer_pc = "write"
    /\ \E ok \in BOOLEAN :
          /\ deq' = Append(deq, [cmd |-> writer_data[1], ok |-> ok,
                                 by |-> ArduinoThreadInit(serial_ok).write_worker])
          /\ write_queue' = IF ok THEN write_queue ELSE Append(write_queue, writer_data[1])
    /\ writer_data' = <<>>
    /\ writer_pc' = "sleep"
    /\ wake_at' = now + WRITER_SLEEP
    /\ UNCHANGED <<now, last_sent_time, joyVars, samplerVars, serial_ok,
                   ticks, enq, pureVars,
                   joystick_info, pollVars, linkVars>>

\* json.dumps, serial_port.write and flush: they succeed, or raise and the error is logged;
\* then time.sleep(0.1) starts.
WriterWrite ==
    /\ writer_pc = "write"
    /\ \E ok \in BOOLEAN :
          deq' = Append(deq, [cmd |-> writer_data[1], ok |-> ok,
                              by |-> ArduinoThreadInit(serial_ok).write_worker])
    /\ writer_data' = <<>>
    /\ writer_pc' = "sleep"
    /\ wake_at' = now + WRITER_SLEEP
    /\ UNCHANGED <<now, last_sent_time, joyVars, samplerVars, write_queue, serial_ok,
                   ticks, enq, pureVars,
                   joystick_info, pollVars, linkVars>>

\* time.sleep(0.1) returns and the loop starts over.
WriterWake ==
    /\ writer_pc = "sleep"
    /\ now >= wake_at
    /\ writer_pc' = "top"
    /\ UNCHANGED <<now, last_sent_time, joyVars, samplerVars, write_queue, serial_ok,
                   writer_data, wake_at, deq, ticks, enq, pureVars,
                   joystick_info, pollVars, linkVars>>

Next ==
    \/ JoystickTimerTick
    \/ WaitForJoystickTimerTick
    \/ PlugJoystick
    \/ UnplugJoystick
    \/ AdvanceTime
    \/ WriterCheck
    \/ WriterGet
    \/ WriterWrite
    \/ WriterWake

Spec == Init /\ [][Next]_vars

----
\* Runs that apply the sampler and the thrust mapper to every input of a grid

systemVars == <<now, last_sent_time, joyVars, write_queue, serial_ok, writerVars, ticks, enq,
                pollVars, linkVars>>

\* __map_to_pwm called on one value
ApplyMapToPwm ==
    /\ applied = "none" /\ ticks = <<>>
    /\ \E v \in AxisRange : val' = v /\ pwm' = map_to_pwm(v)
    /\ applied' = "map_to_pwm"
    /\ UNCHANGED <<systemVars, samplerVars, joystick_info>>

\* __calculate_pulsewidth called on one axis_info
ApplyCalculatePulsewidth ==
    /\ applied = "none" /\ ticks = <<>>
    /\ \E info \in CalcInfos : axis_info' = info /\ pulsewidths' = calculate_pulsewidth(info)
    /\ applied' = "calculate_pulsewidth"
    /\ UNCHANGED <<systemVars, get_axis, read_axes, rumble, to_arduino, val, pwm,
                   joystick_info>>

\* One tick of check_joystick_input with the sticks anywhere on the grid
GridTick ==
    /\ main_thread = "idle"
    /\ applied = "none" /\ ticks = <<>>
    /\ CheckJoystickInput(GridAxes)
    /\ UNCHANGED <<joystick_info, pollVars, linkVars>>

InitMap == Init /\ joy_present /\ serial_ok

NextMap == ApplyMapToPwm \/ ApplyCalculatePulsewidth \/ GridTick

SpecMap == InitMap /\ [][NextMap]_vars

----
\* Runs of the controller with its histories recorded: what joystick_change_signal
\* emitted last, and when _wait_for_joystick ran last

InitJoy ==
    /\ Constructed
    /\ startup_count = <<joy_count>>
    /\ reenum_at = 0
    /\ joystick_info = <<>>

\* The 10 ms timer fires; the emitted dict and the call of _wait_for_joystick in the
\* disconnected branch are recorded.
JoystickTimerTickObserved ==
    /\ main_thread = "idle"
    /\ applied = "none"
    /\ Connected => Len(ticks) < MaxTicks
    /\ CheckJoystickInput(SampleAxes)
    /\ joystick_info' = IF Connected
                        THEN <<ConnectedInfo(pulsewidths')>>
                        ELSE <<DisconnectedInfo>>
    /\ reenum_at' = IF Connected THEN reenum_at ELSE now
    /\ UNCHANGED <<poll_due, startup_count, linkVars>>

\* _wait_for_joystick_timer, started with start(1000) in __init__, times out: the first
\* time as soon as the event loop runs, then one period after each timeout.
WaitForJoystickTimerTimeout ==
    /\ main_thread = "idle"
    /\ wait_timer
    /\ now >= poll_due
    /\ wait_for_joystick
    /\ reenum_at' = now
    /\ poll_due' = now + POLL_PERIOD
    /\ UNCHANGED <<now, last_sent_time, samplerVars, write_queue, serial_ok,
                      writerVars, ticks, enq, pureVars, joystick_info, startup_count,
                   linkVars>>

NextJoy ==
    \/ JoystickTimerTickObserved
    \/ WaitForJoystickTimerTimeout
    \/ PlugJoystick
    \/ UnplugJoystick
    \/ AdvanceTime

SpecJoy == InitJoy /\ [][NextJoy]_vars

----
\* The controller of the gui revision (src/gui/joystickthread.py)

InitGui ==
    /\ ConstructedWith([count \in 0..1 |-> GuiJoystickThreadInit(count)])
    /\ startup_count = <<joy_count>>
    /\ reenum_at = 0
    /\ joystick_info = <<>>

\* check_joystick_input of the gui revision, one 10 ms timer tick. The connected branch
\* emits a dict with "connected": True (its thrust values are left out); the other
\* branch emits {"connected": False} and calls __wait_for_joystick. The tick is
\* recorded with the branch it took.
GuiJoystickTimerTick ==
    /\ main_thread = "idle"
    /\ Len(ticks) < MaxTicks
    /\ IF Connected
       THEN /\ joystick_info' = <<[connected |-> TRUE]>>
            /\ UNCHANGED <<joyVars, reenum_at>>
       ELSE /\ joystick_info' = <<[connected |-> FALSE]>>
            /\ joy_count' = IF joy_present THEN 1 ELSE 0
            /\ joystick' = gui_wait_for_joystick(joystick, joy_present)
            /\ reenum_at' = now
            /\ UNCHANGED <<joy_present, wait_timer>>
    /\ ticks' = Append(ticks, [at |-> now, connected |-> Connected])
    /\ UNCHANGED <<now, last_sent_time, samplerVars, write_queue, serial_ok,
                   writerVars, enq, pureVars, poll_due, startup_count, linkVars>>

NextGui ==
    \/ GuiJoystickTimerTick
    \/ PlugJoystick
    \/ UnplugJoystick
    \/ AdvanceTime

SpecGui == InitGui /\ [][NextGui]_vars

\* The controller alone, within one 50 ms unit of time; the 10 ms timer of the main
\* event loop keeps firing.
NextReconnect ==
    \/ JoystickTimerTickObserved
    \/ WaitForJoystickTimerTimeout
    \/ PlugJoystick
    \/ UnplugJoystick

SpecJoyFair == InitJoy /\ [][NextReconnect]_vars /\ WF_vars(JoystickTimerTickObserved)

----
\* The link's reader, the relay and the main thread

\* What a line of the device holds: a JSON object, other well-formed JSON (a number, a
\* list), or text that json.loads or decode("utf-8") rejects.
LineKinds == {"object", "nonobject", "malformed"}

\* Mutant of read_arduino: the signal takes any parsed JSON value.
ReadFrames_any_json(line) ==
    IF line.kind \in {"object", "nonobject"} THEN <<[id |-> line.id]>> ELSE <<>>

\* The dicts one iteration of read_arduino emits for a line: json.loads raises on
\* malformed text and emit of a pyqtSignal(dict) raises TypeError on a value that is no
\* dict; `except Exception` logs both.
ReadFrames(line) ==
    IF line.kind = "object" THEN <<[id |-> line.id]>> ELSE <<>>

\* The device sends one more line.
DeviceSendsLine ==
    /\ serial_ok
    /\ Len(rx_read) + Len(rx_buffer) < MaxLines
    /\ \E k \in LineKinds :
          rx_buffer' = Append(rx_buffer,
                              [id |-> Len(rx_read) + Len(rx_buffer) + 1, kind |-> k])
    /\ UNCHANGED <<now, last_sent_time, joyVars, samplerVars, write_queue, serial_ok,
                   writerVars, ticks, enq, pureVars, joystick_info, pollVars,
                   main_thread, reader_pc, rx_read, rx_emitted, forwarded, stopVars>>

\* One iteration of read_arduino: readline() returns the next line (it blocks until
\* there is one: the port is opened without a read timeout), the line is decoded,
\* parsed and emitted or the exception is logged, and `while self.running` is tested.
ReadArduino ==
    /\ reader_pc = "readline"
    /\ rx_buffer # <<>>
    /\ LET line == Head(rx_buffer)
           frames == ReadFrames(line)
       IN  /\ rx_buffer' = Tail(rx_buffer)
           /\ rx_emitted' = rx_emitted \o frames
           /\ rx_read' = Append(rx_read, [line |-> line, emitted |-> Len(frames),
                                          by |-> ArduinoThreadInit(serial_ok).read_worker])
    /\ reader_pc' = IF read_running THEN "readline" ELSE "done"
    /\ UNCHANGED <<now, last_sent_time, joyVars, samplerVars, write_queue, serial_ok,
                   writerVars, ticks, enq, pureVars, joystick_info, pollVars,
                   main_thread, forwarded, stopVars>>

\* Mutant of the relay: the newest pending dict is delivered first.
ForwardArduinoData_newest_first ==
    /\ main_thread = "idle"
    /\ rx_emitted # <<>>
    /\ forwarded' = Append(forwarded, rx_emitted[Len(rx_emitted)])
    /\ rx_emitted' = SubSeq(rx_emitted, 1, Len(rx_emitted) - 1)
    /\ UNCHANGED <<now, last_sent_time, joyVars, samplerVars, write_queue, serial_ok,
                   writerVars, ticks, enq, pureVars, joystick_info, pollVars,
                   main_thread, reader_pc, rx_buffer, rx_read, stopVars>>

\* ArduinoThread.forward_arduino_data: the slot of an object that lives in the main
\* thread, connected to the signal of a worker in read_thread; the main event loop
\* delivers the queued call when it is not inside another handler.
ForwardArduinoData ==
    /\ main_thread = "idle"
    /\ rx_emitted # <<>>
    /\ forwarded' = Append(forwarded, Head(rx_emitted))
    /\ rx_emitted' = Tail(rx_emitted)
    /\ UNCHANGED <<now, last_sent_time, joyVars, samplerVars, write_queue, serial_ok,
                   writerVars, ticks, enq, pureVars, joystick_info, pollVars,
                   main_thread, reader_pc, rx_buffer, rx_read, stopVars>>

\* The 10 ms timer fires and check_joystick_input is inside a call of the controller
\* driver (pygame.event.pump, get_axis, or pygame.quit / pygame.init) that has not
\* returned yet.
DriverCallBlocks ==
    /\ main_thread = "idle"
    /\ applied = "none"
    /\ Connected => Len(ticks) < MaxTicks
    /\ main_thread' = "driver"
    /\ UNCHANGED <<now, last_sent_time, joyVars, samplerVars, write_queue, serial_ok,
                   writerVars, ticks, enq, pureVars, joystick_info, pollVars,
                   readerVars, stopVars>>

\* The driver call returns and check_joystick_input runs to its end.
DriverCallReturns ==
    /\ main_thread = "driver"
    /\ CheckJoystickInput(SampleAxes)
    /\ main_thread' = "idle"
    /\ UNCHANGED <<joystick_info, pollVars, readerVars, stopVars>>

NextLink ==
    \/ DeviceSendsLine
    \/ ReadArduino
    \/ ForwardArduinoData
    \/ DriverCallBlocks
    \/ DriverCallReturns
    \/ WaitForJoystickTimerTick
    \/ PlugJoystick
    \/ UnplugJoystick

SpecLink == Init /\ [][NextLink]_vars

----
\* ArduinoThread.stop() and JoystickThread.stop()

\* read_thread and write_thread of ArduinoThread, and the JoystickThread itself, which
\* __init__ starts. (ArduinoThread, also a QThread, is never started.)
Threads == {"read", "write", "joystick"}

\* The thread is in, or about to enter, QThread.exec(): the workers' threads after the
\* slot connected to `started` has returned; the JoystickThread, which does not
\* override run(), from its start.
InEventLoop(t) ==
    CASE t = "read" -> reader_pc = "done"
      [] t = "write" -> writer_pc = "done"
      [] t = "joystick" -> TRUE

\* QThread.run() of thread t returns: exec() returns once quit() has been called.
ThreadRunReturns(t) ==
    /\ t \notin finished
    /\ t \in quit_called
    /\ InEventLoop(t)
    /\ finished' = finished \cup {t}
    /\ UNCHANGED <<now, last_sent_time, joyVars, samplerVars, write_queue, serial_ok,
                   writerVars, ticks, enq, pureVars, joystick_info, pollVars,
                   main_thread, readerVars, read_running, write_running, quit_called,
                   stop_pc, joy_stop_pc, joy_run_flag, at_stop>>

QThreadRunReturns == \E t \in Threads : ThreadRunReturns(t)

\* ArduinoThread.stop() up to read_thread.wait(). Without a serial port the attribute
\* read_worker was never set and `if self.read_worker:` raises AttributeError.
ArduinoStop ==
    /\ stop_pc = "idle"
    /\ IF serial_ok
       THEN /\ read_running' = FALSE
            /\ write_running' = FALSE
            /\ at_stop' = <<[writes |-> Len(deq), reads |-> Len(rx_read),
                             emitted |-> Len(forwarded) + Len(rx_emitted)]>>
            /\ quit_called' = quit_called \cup {"read"}
            /\ stop_pc' = "wait_read"
       ELSE /\ stop_pc' = "raised"
            /\ UNCHANGED <<read_running, write_running, quit_called, at_stop>>
    /\ UNCHANGED <<now, last_sent_time, joyVars, samplerVars, write_queue, serial_ok,
                   writerVars, ticks, enq, pureVars, joystick_info, pollVars,
                   main_thread, readerVars, finished, joy_stop_pc, joy_run_flag>>

\* JoystickThread.stop() up to self.wait().
JoystickStop ==
    /\ joy_stop_pc = "idle"
    /\ joy_run_flag' = FALSE
    /\ joy_stop_pc' = "wait"
    /\ UNCHANGED <<now, last_sent_time, joyVars, samplerVars, write_queue, serial_ok,
                   writerVars, ticks, enq, pureVars, joystick_info, pollVars,
                   main_thread, readerVars, read_running, write_running, quit_called,
                   finished, stop_pc, at_stop>>

\* QThread.wait() on thread t returns to the stop() that called it, which goes on:
\* after read_thread.wait(), write_thread.quit() and write_thread.wait(); after
\* write_thread.wait(), `self._run_flag = False; self.wait()`, which returns at once
\* because the ArduinoThread was never started; after JoystickThread's self.wait(),
\* the return.
WaitReturns(t) ==
    /\ t \in finished
    /\ CASE t = "read" ->
              /\ stop_pc = "wait_read"
              /\ quit_called' = quit_called \cup {"write"}
              /\ stop_pc' = "wait_write"
              /\ UNCHANGED joy_stop_pc
         [] t = "write" ->
              /\ stop_pc = "wait_write"
              /\ stop_pc' = "done"
              /\ UNCHANGED <<quit_called, joy_stop_pc>>
         [] t = "joystick" ->
              /\ joy_stop_pc = "wait"
              /\ joy_stop_pc' = "returned"
              /\ UNCHANGED <<quit_called, stop_pc>>
    /\ UNCHANGED <<now, last_sent_time, joyVars, samplerVars, write_queue, serial_ok,
                   writerVars, ticks, enq, pureVars, joystick_info, pollVars,
                   main_thread, readerVars, read_running, write_running, finished,
                   joy_run_flag, at_stop>>

QThreadWaitReturns == \E t \in Threads : WaitReturns(t)

\* The first tick of the session, which hands the writer one command.
FirstTick == ticks = <<>> /\ JoystickTimerTick

NextStop ==
    \/ ArduinoStop
    \/ JoystickStop
    \/ QThreadRunReturns
    \/ QThreadWaitReturns
    \/ DeviceSendsLine
    \/ ReadArduino
    \/ FirstTick
    \/ WriterCheck
    \/ WriterGet
    \/ WriterWrite
    \/ WriterWake
    \/ AdvanceTime

\* Stops of a session whose controller is connected.
InitStop == Init /\ joy_present

SpecStop == InitStop /\ [][NextStop]_vars

----
\* Runs of the writer under fair scheduling

\* The latest end of a sleep that began with a command waiting: MaxTicks commands are
\* taken after at most that many sleeps.
DrainEnd == MaxTime + WRITER_SLEEP * (MaxTicks + 1)

\* time.sleep(0.1) returns: the sleep's 0.1 s have passed. An idle writer is followed
\* up to MaxTime only.
SleepEnds ==
    /\ writer_pc = "sleep"
    /\ wake_at <= MaxTime \/ write_queue # <<>>
    /\ wake_at <= DrainEnd
    /\ now' = IF now < wake_at THEN wake_at ELSE now
    /\ writer_pc' = "top"
    /\ UNCHANGED <<last_sent_time, joyVars, samplerVars, write_queue, serial_ok,
                   writer_data, wake_at, deq, ticks, enq, pureVars,
                   joystick_info, pollVars, linkVars>>

\* A tick that finds the sticks at rest: what is sampled does not matter to the writer.
RestingTick == JoystickTimerTick /\ read_axes' = ReadAxes(ZeroAxes)

NextDrain ==
    \/ RestingTick
    \/ AdvanceTime
    \/ WriterCheck
    \/ WriterGet
    \/ WriterWrite
    \/ SleepEnds

\* A session with a controller and a device.
InitDrain == Init /\ joy_present /\ serial_ok

\* The writer's thread is scheduled fairly; nothing is assumed of the sampler.
SpecDrain ==
    /\ InitDrain
    /\ [][NextDrain]_vars
    /\ WF_vars(WriterCheck)
    /\ WF_vars(WriterGet)
    /\ WF_vars(WriterWrite)
    /\ WF_vars(SleepEnds)

\* No sleep of the fair runs is cut off by DrainEnd.
DrainEndNotReached == writer_pc = "sleep" => wake_at <= DrainEnd

----
\* ArduinoThread.stop() with commands and lines waiting

\* The device sends one more line, which holds a JSON object.
DeviceSendsObject == DeviceSendsLine /\ rx_buffer'[Len(rx_buffer')].kind = "object"

NextHalt ==
    \/ ArduinoStop
    \/ QThreadRunReturns
    \/ QThreadWaitReturns
    \/ DeviceSendsObject
    \/ ReadArduino
    \/ RestingTick
    \/ AdvanceTime
    \/ WriterCheck
    \/ WriterGet
    \/ WriterWrite
    \/ SleepEnds

SpecHalt == InitDrain /\ [][NextHalt]_vars

----
TypeOK ==
    /\ now \in STARTUP_SLEEP..MaxTime
    /\ last_sent_time \in 0..MaxTime
    /\ joystick \in {"None", "bound", "stale"}
    /\ joy_count \in 0..1
    /\ Len(write_queue) <= Len(enq)
    /\ writer_pc \in {"off", "top", "get", "write", "sleep", "done"}
    /\ get_axis \in [0..5 -> AxisRange]
    /\ Len(rumble) <= 1

----
\* Claims about the sampler and the thrust mapper (SpecMap)

PulsewidthFields == 1..6

\* C1: every command check_joystick_input hands to the link has its six pulsewidth
\* fields as integers in [1100, 1900], whatever the six raw axis values in [-1, 1].
C1_PulsewidthsInRange ==
    \A i \in DOMAIN enq : \A j \in PulsewidthFields : enq[i].data.axisInfo[j] \in 1100..1900

\* A command with full forward thrust and full descent was handed to the link.
C1_Witness ==
    \E i \in DOMAIN enq : enq[i].data.axisInfo[1] = 1900 /\ enq[i].data.axisInfo[4] = 1100

\* C2: __map_to_pwm(v) is exactly 1500 for |v| <= PWM_DEADZONE_MIN (bounds included)
\* and 400 * (v + 1) + 1100 for every other v.
C2_MapToPwm ==
    applied = "map_to_pwm" =>
        pwm = IF Abs(val) <= PWM_DEADZONE_MIN
              THEN 1500 * Scale
              ELSE 400 * (val + Scale) + 1100 * Scale

\* __map_to_pwm was called on the lower bound of the deadzone and returned 1500.
C2_Witness == applied = "map_to_pwm" /\ val = -PWM_DEADZONE_MIN /\ pwm = 1500 * Scale

\* C3: the resting axis state (all four stick axes 0) maps through
\* __calculate_pulsewidth to six fields that are all exactly 1500, in a direct call
\* and in a sampling tick.
C3_RestingMapsTo1500 ==
    ((applied = "calculate_pulsewidth" \/ ticks # <<>>) /\ axis_info = ZeroInfo) =>
        /\ pulsewidths.forward_backward_pulsewidth = 1500
        /\ pulsewidths.left_pulsewidth = 1500
        /\ pulsewidths.right_pulsewidth = 1500
        /\ pulsewidths.ascend_descend_pulsewidth = 1500
        /\ pulsewidths.pitch_left_pulsewidth = 1500
        /\ pulsewidths.pitch_right_pulsewidth = 1500
        /\ ticks # <<>> => \A j \in PulsewidthFields : to_arduino.axisInfo[j] = 1500

\* __calculate_pulsewidth was called on the resting axis state.
C3_Witness ==
    /\ applied = "calculate_pulsewidth"
    /\ axis_info = ZeroInfo
    /\ pulsewidths.ascend_descend_pulsewidth = 1500
    /\ pulsewidths.pitch_right_pulsewidth = 1500

\* C4: differential pairs are antisymmetric.  With leftStickX = k and all else 0, left
\* and right are the right and left of the mapping of leftStickX = -k; the same holds
\* for pitchLeft and pitchRight with rightStickX.
C4_DifferentialAntisymmetric ==
    applied = "calculate_pulsewidth" =>
        /\ axis_info = OneAxisInfo("tLeft_LeftRight", axis_info.tLeft_LeftRight) =>
              LET m == calculate_pulsewidth(OneAxisInfo("tLeft_LeftRight", -axis_info.tLeft_LeftRight))
              IN  /\ pulsewidths.left_pulsewidth = m.right_pulsewidth
                  /\ pulsewidths.right_pulsewidth = m.left_pulsewidth
        /\ axis_info = OneAxisInfo("tRight_LeftRight", axis_info.tRight_LeftRight) =>
              LET m == calculate_pulsewidth(OneAxisInfo("tRight_LeftRight", -axis_info.tRight_LeftRight))
              IN  /\ pulsewidths.pitch_left_pulsewidth = m.pitch_right_pulsewidth
                  /\ pulsewidths.pitch_right_pulsewidth = m.pitch_left_pulsewidth

\* __calculate_pulsewidth was called with the left stick fully to the left: the left
\* motor is at full reverse and the right motor at full forward.
C4_Witness ==
    /\ applied = "calculate_pulsewidth"
    /\ axis_info = OneAxisInfo("tLeft_LeftRight", -Scale)
    /\ pulsewidths.left_pulsewidth = 1100
    /\ pulsewidths.right_pulsewidth = 1900

\* The value read for a stick or trigger is exactly 0 downstream when its magnitude is
\* below DEADZONE_MIN, and itself otherwise.
C5_Passed(read, out) == out = IF Abs(read) < DEADZONE_MIN THEN 0 ELSE read

----
\* Claims about the rate limiter, the queue and the writer loop (Spec)

\* C6: any two consecutive commands handed to ArduinoThread.handle_data are separated
\* by strictly more than ARDUINO_SEND_TIMER_MIN, so no window of that length holds two.
C6_RateLimit ==
    \A i \in DOMAIN enq : \A j \in DOMAIN enq :
        i < j => enq[j].at - enq[i].at > ARDUINO_SEND_TIMER_MIN

\* Two commands were handed to handle_data.
C6_Witness == Len(enq) >= 2 /\ enq[2].at - enq[1].at = ARDUINO_SEND_TIMER_MIN + 1

\* The connected ticks so far are spaced by more than ARDUINO_SEND_TIMER_MIN.
SpacedStream ==
    \A i \in 1..(Len(ticks) - 1) : ticks[i + 1].at - ticks[i].at > ARDUINO_SEND_TIMER_MIN

\* C7: when the connected sampling ticks are spaced by more than MIN_SEND_INTERVAL,
\* every one of their commands is enqueued; lastSentAt starts at the construction of
\* the dispatcher, 7.5 s before the first tick can run.
C7_SpacedStreamAllSent ==
    SpacedStream =>
        /\ \A i \in DOMAIN ticks : ticks[i].sent
        /\ Len(enq) = Len(ticks)
        /\ \A i \in DOMAIN enq : enq[i].tick = i

\* Two ticks spaced by more than the interval, both enqueued.
C7_Witness == Len(ticks) >= 2 /\ SpacedStream /\ ticks[1].sent /\ ticks[2].sent /\ Len(enq) >= 2

\* The step is a connected tick that the rate limiter rejects.
RejectedTick == Len(ticks') = Len(ticks) + 1 /\ ~ticks'[Len(ticks')].sent

\* No command of a rejected tick was ever enqueued or is waiting in the queue.
RejectedNeverQueued ==
    \A i \in DOMAIN ticks : ~ticks[i].sent =>
        /\ \A j \in DOMAIN enq : enq[j].tick # i
        /\ \A j \in DOMAIN write_queue : write_queue[j].tick # i

\* C8: a tick whose command the rate limiter rejects leaves the outbound queue and
\* lastSentAt unchanged, and no later step enqueues that command.
C8_RejectedDropped ==
    [][/\ RejectedTick => UNCHANGED <<write_queue, last_sent_time, enq>>
       /\ RejectedNeverQueued']_vars

\* A tick was rejected and a later tick was accepted and enqueued.
C8_Witness ==
    \E i \in DOMAIN ticks : \E j \in DOMAIN ticks :
        /\ i < j
        /\ ~ticks[i].sent
        /\ ticks[j].sent
        /\ \E k \in DOMAIN enq : enq[k].tick = j

\* The commands the writer has taken from the queue so far, in order, with the one in hand.
Dequeued == [i \in 1..Len(deq) |-> deq[i].cmd] \o writer_data

\* C9: the writer takes the commands in the order the dispatcher accepted them: for
\* every interleaving the commands passed to the serial write are a prefix of the
\* commands enqueued (those whose write raised are not written), and the rest wait
\* in the queue in the same order.
C9_Fifo ==
    /\ Len(Dequeued) <= Len(enq)
    /\ Dequeued = SubSeq(enq, 1, Len(Dequeued))
    /\ Dequeued \o write_queue = enq

\* Two commands went to the serial write; the first write raised, the second succeeded.
C9_Witness == Len(deq) >= 2 /\ ~deq[1].ok /\ deq[2].ok

\* C10 as claimed: no backlog accumulates; while the writer loop runs at most one
\* command waits in write_queue.
C10_NoBacklog == writer_pc # "off" => Len(write_queue) <= 1

\* C10 amended: the rate limiter bounds only how fast the queue grows; while the writer
\* loop runs, n >= 2 commands wait in write_queue only after more than
\* (n - 1) * ARDUINO_SEND_TIMER_MIN have passed since the first tick could run, and
\* every one of them is a command the writer has not yet taken.
C10_BacklogGrowthBounded ==
    writer_pc # "off" =>
        /\ Len(write_queue) >= 2 =>
              (Len(write_queue) - 1) * ARDUINO_SEND_TIMER_MIN < now - STARTUP_SLEEP
        /\ Len(write_queue) = Len(enq) - Len(Dequeued)

\* Two commands wait in the queue while the writer loop runs.
C10_Witness == writer_pc # "off" /\ Len(write_queue) >= 2

----
\* Claims about the threads (Spec)

\* The writer loop is inside serial_port.write/flush or inside time.sleep.
WriterStalled == writer_pc \in {"write", "sleep"}

\* C11: a stalled link write never delays input sampling and the producer never blocks
\* on the queue: while the writer loop is inside write/flush or asleep, the 10 ms tick
\* can run to its end, handle_data included, without any step of the writer.
C11_SamplingNotDelayed ==
    (WriterStalled /\ applied = "none" /\ Len(ticks) < MaxTicks) =>
        ENABLED (JoystickTimerTick /\ UNCHANGED writerVars)

\* A command was enqueued after the writer fell asleep and the writer still sleeps.
C11_Witness ==
    /\ writer_pc = "sleep"
    /\ now < wake_at
    /\ write_queue # <<>>
    /\ \E i \in DOMAIN enq : enq[i].at > wake_at - WRITER_SLEEP

\* The step is a serial write that raised.
FailedWrite == Len(deq') = Len(deq) + 1 /\ ~deq'[Len(deq')].ok

\* The command of every write that raised was passed to the serial port once, is not
\* in hand and is not back in the queue.
FailedNotRetried ==
    \A i \in DOMAIN deq : ~deq[i].ok =>
        /\ \A j \in DOMAIN deq : j # i => deq[j].cmd # deq[i].cmd
        /\ \A j \in DOMAIN write_queue : write_queue[j] # deq[i].cmd
        /\ writer_data # <<deq[i].cmd>>

\* C14: a serial write that raises leaves the writer loop running (it goes on to its
\* sleep and the queue is untouched); the failed command is neither retried nor
\* re-queued; the commands enqueued afterwards are all taken from the queue or waiting
\* in it, in order.
C14_WriteFailureSkipped ==
    [][/\ FailedWrite => (writer_pc' = "sleep" /\ write_queue' = write_queue)
       /\ FailedNotRetried'
       /\ (Dequeued \o write_queue = enq)']_vars

\* A write raised, and a command enqueued later was taken and written.
C14_Witness ==
    \E i \in DOMAIN deq : \E j \in DOMAIN deq :
        /\ i < j
        /\ ~deq[i].ok
        /\ deq[j].ok
        /\ deq[j].cmd.at > deq[i].cmd.at + ARDUINO_SEND_TIMER_MIN

----
\* Claims about the controller's connection (SpecJoy, SpecJoyFair)

\* C15: when the controller drops, the next tick emits {"connected": False} and calls
\* _wait_for_joystick; while pygame counts no controller no step produces or enqueues
\* a command, and the count rises again only in a step that finds the controller
\* present and binds it.
C15_DropStopsCommands ==
    [][/\ joy_count = 0 => UNCHANGED <<enq, write_queue, ticks, to_arduino, last_sent_time>>
       /\ (joy_count = 0 /\ joystick_info' # joystick_info) =>
              (joystick_info' = <<DisconnectedInfo>> /\ reenum_at' = now)
       /\ (joy_count = 0 /\ joy_count' > 0) => (joy_present /\ joystick' = "bound")]_vars

\* The controller dropped after commands were sampled, and a tick has emitted the
\* disconnected dict.
C15_Witness ==
    /\ ticks # <<>>
    /\ joystick = "bound"
    /\ joy_count = 0
    /\ joystick_info = <<DisconnectedInfo>>
    /\ reenum_at >= ticks[Len(ticks)].at

\* C16: from the disconnected state, at startup or after a drop, a controller that is
\* present and stays present is eventually bound (Joystick(0)) with get_count() > 0, so
\* that the next tick samples it.
C16_EventuallyReconnected ==
    (~(joystick = "bound" /\ joy_count > 0) /\ joy_present)
        ~> ((joystick = "bound" /\ joy_count > 0) \/ ~joy_present)

\* A controller that dropped after a command was sampled is bound again.
C16_Witness ==
    /\ ticks # <<>>
    /\ reenum_at >= ticks[Len(ticks)].at
    /\ joystick_info = <<DisconnectedInfo>>
    /\ joystick = "bound"
    /\ joy_count > 0

\* C17: until _wait_for_joystick runs for the first time the controller is as __init__
\* left it: no joystick bound and the poll timer running if get_count() was 0, a
\* joystick bound and the timer not running otherwise.
C17_StartState ==
    reenum_at = 0 =>
        IF startup_count = <<0>>
        THEN joystick = "None" /\ wait_timer
        ELSE joystick = "bound" /\ ~wait_timer

\* The start with no controller, before the first tick.
C17_Witness ==
    /\ startup_count = <<0>>
    /\ reenum_at = 0
    /\ now = STARTUP_SLEEP
    /\ joystick = "None"
    /\ wait_timer

\* C18 as claimed: two consecutive calls of _wait_for_joystick are at least one period
\* of the 1000 ms poll timer apart.
C18_PollPeriodBetweenReenumerations ==
    [][(reenum_at # 0 /\ reenum_at' # reenum_at) =>
          reenum_at' - reenum_at >= POLL_PERIOD]_vars

----
\* Claims about the reader and the relay (SpecLink)

\* C12 as claimed: while check_joystick_input is inside a call of the controller
\* driver, a dict the reader has emitted can still be forwarded by
\* forward_arduino_data.
C12_TelemetryNotDelayed ==
    (main_thread = "driver" /\ rx_emitted # <<>>) => ENABLED ForwardArduinoData

IsObjectLine(r) == r.line.kind = "object"

\* The lines read so far that hold a JSON object, in order.
ObjectLines == SelectSeq(rx_read, IsObjectLine)

\* C13: the reader emits exactly one dict for each line that holds a JSON object and
\* none for any other line, the dicts reach forward_arduino_data in the order of their
\* lines, and no line ends the loop while running is True.
C13_OneFramePerObjectLine ==
    /\ \A i \in DOMAIN rx_read :
          rx_read[i].emitted = IF IsObjectLine(rx_read[i]) THEN 1 ELSE 0
    /\ forwarded \o rx_emitted =
          [i \in 1..Len(ObjectLines) |-> [id |-> ObjectLines[i].line.id]]
    /\ (serial_ok /\ read_running) => reader_pc = "readline"

\* A malformed line was read, then a line with a JSON object, whose dict was forwarded.
C13_Witness ==
    \E i \in DOMAIN rx_read : \E j \in DOMAIN rx_read :
        /\ i < j
        /\ rx_read[i].line.kind = "malformed"
        /\ IsObjectLine(rx_read[j])
        /\ forwarded = <<[id |-> rx_read[j].line.id]>>

\* C24 as claimed: a connected tick inverts the vertical axis of both sticks before
\* mapping, so get_axis(1) = -1 gives a forward_backward pulsewidth above 1500 and
\* get_axis(3) = -1 gives an ascend_descend pulsewidth above 1500.
C24_BothVerticalAxesInverted ==
    ticks # <<>> =>
        /\ read_axes.left_thumbstick_up_down = -get_axis[1]
        /\ read_axes.right_thumbstick_up_down = -get_axis[3]
        /\ get_axis[1] = -Scale =>
              pulsewidths.forward_backward_pulsewidth > RESTING_PULSEWIDTH
        /\ get_axis[3] = -Scale =>
              pulsewidths.ascend_descend_pulsewidth > RESTING_PULSEWIDTH

\* The largest magnitude among the six values get_axis returned.
MaxAbsAxis(a) == Max({Abs(a[i]) : i \in 0..5})

\* C25 as claimed: every connected tick issues a rumble command whose intensity is the
\* largest magnitude of all six sampled axes, whether or not the deadzone zeroed any.
C25_RumbleIsMaxOfAllAxes ==
    ticks # <<>> => rumble = <<MaxAbsAxis(get_axis)>>

\* C25, amended: every connected tick issues a rumble command whose intensity is the
\* largest magnitude of the four thumbstick values after the deadzone; a thumbstick
\* value the deadzone zeroed counts as 0 and the triggers do not count.
C25_RumbleIsMaxOfDeadzonedThumbsticks ==
    ticks # <<>> =>
        rumble = <<Max({Abs(Deadzone(read_axes.left_thumbstick_left_right)),
                        Abs(Deadzone(read_axes.left_thumbstick_up_down)),
                        Abs(Deadzone(read_axes.right_thumbstick_left_right)),
                        Abs(Deadzone(read_axes.right_thumbstick_up_down))})>>

\* A tick with a thumbstick inside the deadzone, the right thumbstick pushed to the
\* deadzone bound and a trigger fully pulled: the intensity is that of the right
\* thumbstick.
C25_Witness ==
    /\ ticks # <<>>
    /\ get_axis[0] = DEADZONE_MIN - 1
    /\ get_axis[3] = -DEADZONE_MIN
    /\ get_axis[4] = Scale
    /\ rumble = <<DEADZONE_MIN>>

\* The payload a tick has just put on the outbound queue.
Enqueued == enq'[Len(enq')].data

\* C26: every payload put on the outbound queue is a dict with the one key "axisInfo"
\* whose value lists, in this order, the forward_backward, left, right, ascend_descend,
\* pitch_left and pitch_right pulsewidths of the tick that enqueued it, followed by the
\* deadzoned left and right trigger values of that tick and nothing else.
C26_PayloadShape ==
    [][Len(enq') = Len(enq) + 1 =>
          /\ DOMAIN Enqueued = {"axisInfo"}
          /\ Enqueued.axisInfo =
                <<pulsewidths'.forward_backward_pulsewidth,
                  pulsewidths'.left_pulsewidth,
                  pulsewidths'.right_pulsewidth,
                  pulsewidths'.ascend_descend_pulsewidth,
                  pulsewidths'.pitch_left_pulsewidth,
                  pulsewidths'.pitch_right_pulsewidth,
                  IF Abs(read_axes'.left_trigger) < DEADZONE_MIN
                  THEN 0 ELSE read_axes'.left_trigger,
                  IF Abs(read_axes'.right_trigger) < DEADZONE_MIN
                  THEN 0 ELSE read_axes'.right_trigger>>
          /\ write_queue'[Len(write_queue')] = enq'[Len(enq')]
      ]_vars

\* A payload was enqueued whose pulsewidths tell the positions apart, with one trigger
\* passed and the other zeroed by the deadzone.
C26_Witness ==
    /\ Len(enq) = 1
    /\ LET a == enq[1].data.axisInfo
       IN  /\ a[1] = 1900 /\ a[2] = 1100 /\ a[3] = 1900
           /\ a[4] = 1100 /\ a[5] # a[6]
           /\ a[7] = Scale /\ a[8] = 0
    /\ get_axis[5] = DEADZONE_MIN - 1

\* C27: the axis state with tLeft_UpDown = -1.0 and every other axis 0 maps to a
\* forward_backward pulsewidth of 1100 after rounding and leaves the other five at
\* 1500, in a direct call of the mapper and in a tick, whose payload carries them.
C27_FullNegativeLeftY ==
    axis_info = OneAxisInfo("tLeft_UpDown", -Scale) =>
        /\ pulsewidths = [RestingPulsewidths EXCEPT !.forward_backward_pulsewidth = 1100]
        /\ ticks # <<>> =>
              SubSeq(to_arduino.axisInfo, 1, 6) = <<1100, 1500, 1500, 1500, 1500, 1500>>

\* A tick produced that axis state (the sampler negates get_axis(1)) and its payload.
C27_Witness ==
    /\ ticks # <<>>
    /\ get_axis = [j \in 0..5 |-> IF j = 1 THEN Scale ELSE 0]
    /\ axis_info = OneAxisInfo("tLeft_UpDown", -Scale)
    /\ pulsewidths.forward_backward_pulsewidth = 1100
    /\ enq # <<>> /\ enq[1].data.axisInfo[1] = 1100

OutsidePwmDeadzone(v) == v < -PWM_DEADZONE_MIN \/ v > PWM_DEADZONE_MIN

SameSignRegion(v1, v2) == (v1 < 0 /\ v2 < 0) \/ (v1 > 0 /\ v2 > 0)

\* C28: __map_to_pwm is monotonically non-decreasing: for the value val it was called
\* on and every larger v2 of the range, both outside the PWM deadzone and of the same
\* sign, the result for val is at most the result for v2, before and after rounding.
C28_MapToPwmMonotone ==
    (applied = "map_to_pwm" /\ OutsidePwmDeadzone(val)) =>
        \A v2 \in AxisRange :
            (val < v2 /\ OutsidePwmDeadzone(v2) /\ SameSignRegion(val, v2)) =>
                /\ pwm <= map_to_pwm(v2)
                /\ round(pwm) <= round(map_to_pwm(v2))

\* __map_to_pwm was called on the first value above the deadzone: the next value maps
\* to a larger float that rounds to the same integer.
C28_Witness ==
    /\ applied = "map_to_pwm"
    /\ val = PWM_DEADZONE_MIN + 1
    /\ pwm < map_to_pwm(val + 1)
    /\ round(pwm) = round(map_to_pwm(val + 1))

\* C29 as claimed: the writer goes to sleep only when the queue is empty; with a
\* command waiting it goes on to dequeue and send it without sleeping first.
C29_SleepsOnlyWhenQueueEmpty ==
    [][(writer_pc # "sleep" /\ writer_pc' = "sleep") => write_queue' = <<>>]_vars

\* The number of dicts the reader has emitted so far.
EmittedCount == Len(forwarded) + Len(rx_emitted)

\* C30: each loop tests its running flag once per iteration: after ArduinoThread.stop()
\* has cleared the flags the writer makes at most one further write attempt and the
\* reader reads at most one further line and emits at most one further dict, a loop
\* that has ended found its flag False, and stop() has cleared both flags before it
\* waits for either thread.
C30_AtMostOneMoreIteration ==
    /\ stop_pc \in {"wait_read", "wait_write", "done"} =>
          ~read_running /\ ~write_running /\ at_stop # <<>>
    /\ at_stop # <<>> =>
          /\ Len(deq) <= at_stop[1].writes + 1
          /\ Len(rx_read) <= at_stop[1].reads + 1
          /\ EmittedCount <= at_stop[1].emitted + 1
    /\ writer_pc = "done" => ~write_running
    /\ reader_pc = "done" => ~read_running

\* Both loops ended after one more iteration each, with a command still on the queue
\* and a line still unread.
C30_Witness ==
    /\ at_stop # <<>>
    /\ writer_pc = "done" /\ write_queue # <<>>
    /\ Len(deq) = at_stop[1].writes + 1
    /\ reader_pc = "done" /\ rx_buffer # <<>>
    /\ EmittedCount = at_stop[1].emitted + 1

\* The threads of the process that run code of the link: the main thread, which
\* opens the port in ArduinoThread.__init__, and the two worker threads.
LinkThreads == {"main", "read_thread", "write_thread"}

\* C31: the open port is used by exactly one reader and one writer context: every
\* readline is made by the read worker's thread, every write and flush by the write
\* worker's thread, the two are distinct threads and neither is the main thread, and
\* no other step takes a line from the port or makes a write attempt.
C31_OneReaderOneWriter ==
    [][/\ \A i \in DOMAIN rx_read : rx_read[i].by = "read_thread"
       /\ \A i \in DOMAIN deq : deq[i].by = "write_thread"
       /\ \A i \in DOMAIN rx_read : \A j \in DOMAIN deq :
             /\ rx_read[i].by # deq[j].by
             /\ {rx_read[i].by, deq[j].by} \subseteq LinkThreads \ {"main"}
       /\ Len(rx_buffer') < Len(rx_buffer) =>
             /\ reader_pc = "readline"
             /\ rx_read' = Append(rx_read, rx_read'[Len(rx_read')])
             /\ rx_read'[Len(rx_read')].line = Head(rx_buffer)
       /\ deq' # deq =>
             /\ writer_pc = "write"
             /\ Len(deq') = Len(deq) + 1
      ]_vars

\* A line was read and a command was written, by different threads.
C31_Witness ==
    /\ rx_read # <<>> /\ deq # <<>>
    /\ rx_read[1].by = "read_thread"
    /\ deq[1].by = "write_thread"

\* C32: the calls into the controller driver are all made by handlers of the main
\* event loop, one at a time: while the 10 ms handler is inside a driver call neither
\* the 1000 ms reconnect handler nor another 10 ms handler can start.
C32_DriverHandlersNeverOverlap ==
    main_thread = "driver" =>
        /\ ~ENABLED WaitForJoystickTimerTick
        /\ ~ENABLED JoystickTimerTick
        /\ ~ENABLED DriverCallBlocks

\* The sampling handler is inside a driver call while the reconnect timer is active
\* and a controller is plugged in for it to find.
C32_Witness ==
    /\ main_thread = "driver"
    /\ wait_timer
    /\ joy_present /\ joystick = "None"

\* C33 as claimed, for the gui revision: when startup found zero controllers and a
\* controller is connected later, the re-poll of a disconnected tick binds controller
\* index 0 and the machine is connected.
C33_GuiRepollBinds ==
    [][(startup_count = <<0>> /\ ~Connected /\ joy_present
          /\ Len(ticks') = Len(ticks) + 1) =>
             (joystick' = "bound" /\ joy_count' > 0)
      ]_vars

\* C34: the sampler's deadzone acts before the mapping, so every pulsewidth of an
\* enqueued command is 1500 or lies in [1100, 1200] or in [1800, 1900].
C34_NoMidRangePulsewidth ==
    \A i \in DOMAIN enq : \A j \in PulsewidthFields :
        LET p == enq[i].data.axisInfo[j]
        IN  p = RESTING_PULSEWIDTH \/ p \in 1100..1200 \/ p \in 1800..1900

\* A command was enqueued for the left stick pushed right exactly to the deadzone
\* bound: the left and right pulsewidths are on the inner ends of the two ranges.
C34_Witness ==
    /\ enq # <<>>
    /\ get_axis[0] = DEADZONE_MIN
    /\ enq[1].data.axisInfo[2] = 1800
    /\ enq[1].data.axisInfo[3] = 1200

C36_NoStaleHandleSampled ==
    [][/\ Connected => joystick = "bound"
       /\ (Connected /\ Len(ticks') = Len(ticks) + 1) => joystick' = "bound"
      ]_vars

\* A session that started with a controller, lost it, re-initialised pygame and bound
\* the controller again, and whose last tick sampled.
C36_Witness ==
    /\ startup_count = <<1>>
    /\ reenum_at > 0
    /\ Connected /\ joystick = "bound"
    /\ ticks # <<>>
    /\ joystick_info # <<>> /\ joystick_info[1].connected = "True"

\* C37: the 1000 ms reconnect timer is active only while no joystick has ever been
\* bound: it is active after construction exactly when zero controllers enumerated,
\* the step that first binds a joystick stops it, it is never started again, and so
\* timer-active implies that no joystick is bound.
C37_PollTimerOnlyBeforeFirstBind ==
    [][/\ wait_timer => (joystick = "None" /\ startup_count = <<0>>)
       /\ ~wait_timer => ~wait_timer'
       /\ (joystick = "None" /\ joystick' # "None") => ~wait_timer'
       /\ (ticks = <<>> /\ reenum_at = 0 /\ joystick_info = <<>>) =>
             (wait_timer <=> startup_count = <<0>>)
      ]_vars

\* A session that started without a controller bound one, which stopped the timer,
\* and lost it again: the handle is stale and the timer is still stopped.
C37_Witness ==
    /\ startup_count = <<0>>
    /\ ~wait_timer
    /\ joystick = "stale"
    /\ ~joy_present

\* C38: a tick in the disconnected branch leaves the outbound queue and
\* last_sent_time as they are: while the guard of the connected branch is false no
\* step enqueues a command or changes last_sent_time, the queue changes only by the
\* writer taking its head, and a writer that has found a command waiting can take it.
C38_DisconnectedTickKeepsQueue ==
    [][~Connected =>
          /\ enq' = enq
          /\ last_sent_time' = last_sent_time
          /\ \/ write_queue' = write_queue
             \/ /\ write_queue # <<>>
                /\ write_queue' = Tail(write_queue)
                /\ writer_data' = <<Head(write_queue)>>
          /\ (writer_pc' = "get" /\ write_queue' # <<>>) => (ENABLED WriterGet)'
      ]_vars

\* The controller dropped with a command waiting, a disconnected tick re-initialised
\* pygame, the command is still queued and the writer is about to take it.
C38_Witness ==
    /\ joystick = "stale" /\ ~Connected
    /\ serial_ok
    /\ write_queue # <<>>
    /\ write_queue[1] = enq[Len(enq)]
    /\ last_sent_time = enq[Len(enq)].at
    /\ writer_pc = "get"

\* The number of samples the rate limiter has let through so far.
AcceptedCount == Cardinality({i \in DOMAIN ticks : ticks[i].sent})

\* C39: with no serial port found at startup every command the rate limiter lets
\* through is still put on write_queue and nothing takes it off: the queue holds
\* exactly the accepted commands, in order, and its length never decreases.
C39_NoPortQueueOnlyGrows ==
    [][~serial_ok =>
          /\ write_queue = enq
          /\ Len(write_queue) = AcceptedCount
          /\ deq = <<>>
          /\ Len(write_queue') >= Len(write_queue)
          /\ Len(write_queue') = AcceptedCount'
      ]_vars

\* No port was found and two accepted commands are waiting on the queue.
C39_Witness ==
    /\ ~serial_ok
    /\ AcceptedCount = 2
    /\ Len(write_queue) = 2
    /\ write_queue[1].at < write_queue[2].at

\* C40: the writer's check-then-get never blocks: once the writer has seen
\* queue.empty() == False and stands before queue.get(), the queue is still non-empty
\* and get() can return, whatever put() calls have come in between; the command it
\* then takes is the oldest accepted command not yet written.
C40_CheckThenGetNeverBlocks ==
    /\ writer_pc = "get" =>
          /\ write_queue # <<>>
          /\ ENABLED WriterGet
          /\ write_queue[1] = enq[Len(deq) + 1]
    /\ writer_pc = "write" => writer_data = <<enq[Len(deq) + 1]>>

\* A put() came in between the writer's empty() check and its get().
C40_Witness ==
    /\ writer_pc = "get"
    /\ Len(write_queue) = 2
    /\ write_queue[2].at > write_queue[1].at + ARDUINO_SEND_TIMER_MIN
    /\ deq = <<>>

\* The dicts the reader has emitted so far, in the order of emission: one for each
\* line read whose iteration emitted.
EmittedFrames ==
    LET emitting == SelectSeq(rx_read, LAMBDA r : r.emitted > 0)
    IN  [i \in 1..Len(emitting) |-> [id |-> emitting[i].line.id]]

\* C23: forward_arduino_data re-emits every dict the reader emitted exactly once and in
\* the order of emission, and nothing else: what was forwarded is a prefix of what the
\* reader emitted, the rest is pending delivery, each delivery re-emits the oldest
\* pending dict and removes it, and a pending dict is delivered whenever the main event
\* loop is idle.
C23_RelayExactlyOnceInOrder ==
    [][/\ Len(forwarded) <= Len(EmittedFrames)
       /\ forwarded = SubSeq(EmittedFrames, 1, Len(forwarded))
       /\ rx_emitted = SubSeq(EmittedFrames, Len(forwarded) + 1, Len(EmittedFrames))
       /\ forwarded' # forwarded =>
             /\ rx_emitted # <<>>
             /\ forwarded' = Append(forwarded, Head(rx_emitted))
             /\ rx_emitted' = Tail(rx_emitted)
       /\ (main_thread' = "idle" /\ rx_emitted' # <<>>) => (ENABLED ForwardArduinoData)'
      ]_vars

\* Two dicts were emitted and both were forwarded, in the order of emission.
C23_Witness ==
    /\ Len(forwarded) = 2
    /\ forwarded = EmittedFrames
    /\ forwarded[1].id < forwarded[2].id
    /\ rx_emitted = <<>>

----
\* Claims about stopping the threads (SpecStop)

\* A step of the reader, of a thread's run() or of a wait(): a step that needs neither
\* the device nor the passing of time.
ShutdownStep == ReadArduino \/ QThreadRunReturns \/ QThreadWaitReturns

\* C19 as claimed: after ArduinoThread.stop() is called the loops exit and stop()
\* returns whether or not the device sends another line: while stop() is inside
\* read_thread.wait() the reader, the threads or stop() can take a step.
C19_StopNeedsNoDeviceData ==
    stop_pc = "wait_read" => ENABLED ShutdownStep

\* C20 as claimed: after JoystickThread.stop() has set the run flag to False the
\* thread finishes and wait() returns: while stop() is inside self.wait() the thread's
\* run() can return or it has returned and wait() can.
C20_JoystickStopReturns ==
    joy_stop_pc = "wait" =>
        ENABLED (ThreadRunReturns("joystick") \/ WaitReturns("joystick"))

----
\* Claims about the link without a device and about the writer's progress

\* A step that reads from or writes to the serial port, or that runs a worker loop.
LinkStep ==
    ReadArduino \/ DeviceSendsLine \/ WriterCheck \/ WriterGet \/ WriterWrite \/ WriterWake

\* C21: when __initialize_serial finds no matching port neither worker is started and
\* no step of a worker loop, so no serial read or write, is ever possible, while the
\* 10 ms tick goes on sampling and mapping: it is enabled and its command is the
\* mapping of the axes it read.
C21_NoSerialNonFatal ==
    ~serial_ok =>
        /\ writer_pc = "off" /\ reader_pc = "off"
        /\ deq = <<>> /\ writer_data = <<>> /\ rx_read = <<>> /\ rx_emitted = <<>>
        /\ ~ENABLED LinkStep
        /\ (applied = "none" /\ Len(ticks) < MaxTicks) => ENABLED JoystickTimerTick
        /\ axis_info = AxisInfo(read_axes)
        /\ pulsewidths = calculate_pulsewidth(axis_info)
        /\ to_arduino = ToArduino(pulsewidths, read_axes)

\* Without a serial port two ticks have sampled, the last one with a stick deflected.
C21_Witness ==
    /\ ~serial_ok
    /\ Len(ticks) >= 2
    /\ read_axes # ReadAxes(ZeroAxes)
    /\ pulsewidths # RestingPulsewidths

\* C22: under fair scheduling of the writer every command put on write_queue is
\* eventually taken from it and passed to a serial write attempt, in the order of
\* enqueuing, whenever and however often the sampler enqueues.
C22_EveryCommandWritten ==
    \A k \in 1..MaxTicks :
        (Len(enq) >= k) ~> (Len(deq) >= k /\ deq[k].cmd = enq[k])

\* Two commands were enqueued and each was passed to a write attempt, in order.
C22_Witness ==
    /\ Len(enq) >= 2
    /\ Len(deq) = Len(enq)
    /\ write_queue = <<>>
    /\ deq[1].cmd = enq[1] /\ deq[2].cmd = enq[2]
    /\ writer_pc = "sleep"

====
